---- MODULE Spec2Model ----
(***************************************************************************)
(* Equity-Story-Generator: the scraping pipeline of app.py (main,          *)
(* comprehensive_company_analysis and the functions it calls) and the      *)
(* flow of app_fixed.py (simple_research_company,                          *)
(* generate_story_with_openai).                                            *)
(*                                                                         *)
(* Strings are sequences of tokens.  A token [w, n] is a run of n          *)
(* characters: a word w (n = Len(w)), or a run of n filler letters         *)
(* (w = "x") in which no keyword, pattern or separator occurs.  Substring, *)
(* prefix, split and lower-casing are computed on the token sequences.     *)
(***************************************************************************)
EXTENDS Naturals, Sequences, FiniteSets, TLC

VARIABLES
    entry,                \* the script that runs: "app" or "app_fixed"
    pc,                   \* position in the running script
    company_url,          \* the URL text input, then the normalised URL
    api_key,              \* the API key text input
    gets,                 \* the URLs handed to requests.get, in order
    outcomes,             \* what requests.get did for each of them, in order
    warnings,             \* the st.warning messages of get_page_content
    responses,            \* what each fetch returned to the script, in order
    homepage_content,     \* get_page_content(company_url)
    homepage_sections,    \* extract_meaningful_content(homepage_content)
    max_pages,            \* find_key_pages' max_pages argument
    key_pages,            \* find_key_pages' result
    scored_links,         \* find_key_pages' scored_links[:max_pages]
    page_i,               \* pages of key_pages already visited by the loop
    all_content_sections, \* the aggregate document
    business_analysis,    \* analyze_business_model's result
    market_data,          \* search_market_intelligence's result (profile name)
    benchmarks,           \* research_financial_benchmarks' result (profile name)
    highlights,           \* generate_professional_highlights' result
    analysis_results,     \* what comprehensive_company_analysis returned
    screen,               \* what the script rendered last
    story                 \* generate_story_with_openai's result / the failure

vars == <<entry, pc, company_url, api_key, gets, outcomes, warnings, responses,
          homepage_content, homepage_sections, max_pages, key_pages, scored_links,
          page_i, all_content_sections, business_analysis, market_data, benchmarks,
          highlights, analysis_results, screen, story>>

(***************************************************************************)
(* Bounds of the model.                                                    *)
(***************************************************************************)
MaxAnchors == 2
MaxPagesArg == 2
MaxParagraphs == 2
MaxValueProps == 3
MaxBucket == 1
MaxHeadings == 10
MaxSentences == 4

(***************************************************************************)
(* Strings.                                                                *)
(***************************************************************************)
W(s) == [w |-> s, n |-> Len(s)]

X(k) == [w |-> "x", n |-> k]

S(ws) == [j \in DOMAIN ws |-> W(ws[j])]

RECURSIVE StrLen(_)
StrLen(s) == IF s = <<>> THEN 0 ELSE s[1].n + StrLen(Tail(s))

Contains(s, sub) ==
    \E j \in 0..Len(s) : j + Len(sub) <= Len(s) /\ SubSeq(s, j + 1, j + Len(sub)) = sub

StartsWith(s, pre) ==
    Len(pre) <= Len(s) /\ SubSeq(s, 1, Len(pre)) = pre

LowerStr(w) ==
    CASE w = "About" -> "about"
      [] w = "Team" -> "team"
      [] w = "Services" -> "services"
      [] w = ".PDF" -> ".pdf"
      [] w = "Cookie" -> "cookie"
      [] w = "Tel:" -> "tel:"
      [] w = "We" -> "we"
      [] w = "Green" -> "green"
      [] w = "Sustainable" -> "sustainable"
      [] w = "Expertise" -> "expertise"
      [] w = "Invalid API key" -> "invalid api key"
      [] w = "Authentication" -> "authentication"
      [] w = "Rate limit" -> "rate limit"
      [] OTHER -> w

Lower(s) == [j \in DOMAIN s |-> [s[j] EXCEPT !.w = LowerStr(@)]]

\* str.split(sep)[0]: the text before the first occurrence of sep
SplitFirst(s, sep) ==
    LET hits == {j \in DOMAIN s : s[j].w = sep}
    IN  IF hits = {} THEN s
        ELSE SubSeq(s, 1, (CHOOSE j \in hits : \A k \in hits : j <= k) - 1)

IsSpace(t) == t.w = " "

RECURSIVE LStrip(_)
LStrip(s) == IF s # <<>> /\ IsSpace(s[1]) THEN LStrip(Tail(s)) ELSE s

RECURSIVE RStrip(_)
RStrip(s) ==
    IF s # <<>> /\ IsSpace(s[Len(s)]) THEN RStrip(SubSeq(s, 1, Len(s) - 1)) ELSE s

Strip(s) == RStrip(LStrip(s))

\* sep.join(parts)
RECURSIVE Join(_, _)
Join(parts, sep) ==
    IF parts = <<>> THEN <<>>
    ELSE IF Len(parts) = 1 THEN parts[1]
    ELSE parts[1] \o sep \o Join(Tail(parts), sep)

RECURSIVE Flatten(_)
Flatten(ss) == IF ss = <<>> THEN <<>> ELSE ss[1] \o Flatten(Tail(ss))

SeqsUpTo(T, n) == UNION {[1..k -> T] : k \in 0..n}

Range(f) == {f[j] : j \in DOMAIN f}

Min(a, b) == IF a <= b THEN a ELSE b

(***************************************************************************)
(* urllib.parse: urlparse(url).netloc and urljoin(base, href).             *)
(* A URL is scheme token, host tokens, then path / query / fragment        *)
(* tokens; "/", "?" and "#" are tokens of their own.                       *)
(***************************************************************************)
HttpSchemes == {"http://", "https://"}

HasScheme(url) == url # <<>> /\ url[1].w \in HttpSchemes

\* the index at which the authority of a URL with a scheme ends
AuthorityEnd(url) ==
    LET stops == {j \in 2..Len(url) : url[j].w \in {"/", "?", "#"}}
    IN  IF stops = {} THEN Len(url)
        ELSE (CHOOSE j \in stops : \A k \in stops : j <= k) - 1

Netloc(url) ==
    IF HasScheme(url) THEN SubSeq(url, 2, AuthorityEnd(url)) ELSE <<>>

Origin(url) ==
    IF HasScheme(url) THEN SubSeq(url, 1, AuthorityEnd(url)) ELSE <<>>

\* the base URL up to and including the last "/" of its path
BaseDir(base) ==
    LET o == Origin(base)
        path == SubSeq(SplitFirst(SplitFirst(base, "#"), "?"), Len(o) + 1,
                       Len(SplitFirst(SplitFirst(base, "#"), "?")))
        slashes == {j \in DOMAIN path : path[j].w = "/"}
    IN  IF path = <<>> THEN (IF o = <<>> THEN <<>> ELSE o \o S(<<"/">>))
        ELSE IF slashes = {} THEN o
        ELSE o \o SubSeq(path, 1, CHOOSE j \in slashes : \A k \in slashes : k <= j)

urljoin(base, href) ==
    IF href = <<>> THEN base
    ELSE IF href[1].w \in HttpSchemes \cup {"mailto:", "tel:"} THEN href
    ELSE IF href[1].w = "#" THEN SplitFirst(base, "#") \o href
    ELSE IF href[1].w = "?" THEN SplitFirst(SplitFirst(base, "#"), "?") \o href
    ELSE IF href[1].w = "/" THEN Origin(base) \o href
    ELSE BaseDir(base) \o href

(***************************************************************************)
(* find_key_pages (app.py 92-146).                                         *)
(***************************************************************************)
priority_keywords ==
    {"about", "over-ons", "services", "diensten", "products", "producten",
     "portfolio", "projects", "projecten", "expertise", "solutions",
     "case-studies", "casestudies", "clients", "klanten", "team",
     "company", "bedrijf", "history", "geschiedenis", "vision", "missie"}

\* the substrings that exclude a URL (line 116)
ExcludedPatterns ==
    {S(<<".pdf">>), S(<<".jpg">>), S(<<".png">>), S(<<"wp-admin">>),
     S(<<"wp-content">>), S(<<"/", "wp-json", "/">>), S(<<"mailto:">>),
     S(<<"tel:">>)}

\* line 114: full_url.split('#')[0].split('?')[0]
CleanUrl(full_url) == SplitFirst(SplitFirst(full_url, "#"), "?")

\* the exclusion test without lower-casing the URL
IsExcludedCaseSensitive(clean_url) ==
    \E x \in ExcludedPatterns : Contains(clean_url, x)

IsExcluded(clean_url) ==
    \E x \in ExcludedPatterns : Contains(Lower(clean_url), x)

\* the link filter without the internal-link test of line 112
KeepsLinkAnyHost(base_url, href) ==
    LET clean_url == CleanUrl(urljoin(base_url, href))
    IN  clean_url # base_url /\ ~IsExcluded(clean_url)

\* lines 112-116: the anchor's URL is kept
KeepsLink(base_url, href) ==
    LET full_url == urljoin(base_url, href)
        clean_url == CleanUrl(full_url)
    IN  /\ Netloc(full_url) = Netloc(base_url)
        /\ clean_url # base_url
        /\ ~IsExcluded(clean_url)

\* lines 106-117: the set of links
LinkSet(base_url, anchors) ==
    {CleanUrl(urljoin(base_url, anchors[j].href)) :
        j \in {k \in DOMAIN anchors : KeepsLink(base_url, anchors[k].href)}}

KeywordHits(s) == Cardinality({k \in priority_keywords : Contains(Lower(s), S(<<k>>))})

\* line 131: the anchors whose resolved href contains the link
RECURSIVE TextScore(_, _, _)
TextScore(link, base_url, anchors) ==
    IF anchors = <<>> THEN 0
    ELSE (IF anchors[1].href # <<>> /\ Contains(urljoin(base_url, anchors[1].href), link)
          THEN 2 * KeywordHits(anchors[1].text) ELSE 0)
         + TextScore(link, base_url, Tail(anchors))

\* lines 122-136
LinkScore(link, base_url, anchors) ==
    3 * KeywordHits(link) + TextScore(link, base_url, anchors)

\* list.sort(reverse=True, key=score): stable, descending by score
RECURSIVE InsertByScore(_, _)
InsertByScore(sorted, e) ==
    IF sorted = <<>> THEN <<e>>
    ELSE IF sorted[1].score >= e.score THEN <<sorted[1]>> \o InsertByScore(Tail(sorted), e)
    ELSE <<e>> \o sorted

RECURSIVE SortByScore(_)
SortByScore(scored) ==
    IF scored = <<>> THEN <<>>
    ELSE InsertByScore(SortByScore(SubSeq(scored, 1, Len(scored) - 1)), scored[Len(scored)])

\* the orders in which iterating the set `links` can yield its elements
RECURSIVE IterationOrders(_)
IterationOrders(links) ==
    IF links = {} THEN {<<>>}
    ELSE UNION {{<<x>> \o o : o \in IterationOrders(links \ {x})} : x \in links}

\* lines 120-138: the score of every link of the set
LinkScores(base_url, anchors) ==
    [link \in LinkSet(base_url, anchors) |-> LinkScore(link, base_url, anchors)]

\* the ranking without the cut to max_pages of line 142
RankedPagesUncut(order, score, n) ==
    LET scored == [j \in DOMAIN order |-> [score |-> score[order[j]], link |-> order[j]]]
        sorted == SortByScore(scored)
    IN  [j \in DOMAIN sorted |-> sorted[j].link]

\* lines 120-142, for one iteration order of the set
RankedPages(order, score, n) ==
    LET scored == [j \in DOMAIN order |-> [score |-> score[order[j]], link |-> order[j]]]
        sorted == SortByScore(scored)
    IN  [j \in 1..Min(n, Len(sorted)) |-> sorted[j].link]

\* the results find_key_pages can return
find_key_pages(base_url, html_content, n) ==
    IF html_content.malformed THEN {<<>>}
    ELSE LET score == LinkScores(base_url, html_content.anchors)
         IN  {RankedPages(o, score, n) : o \in IterationOrders(DOMAIN score)}

(***************************************************************************)
(* extract_meaningful_content (app.py 37-90).  A page's markup is the      *)
(* record of what the parser finds in it: the anchors of the whole         *)
(* document, and the title, heading, paragraph and list elements of the    *)
(* content area once the noise elements are removed (lines 43-55).         *)
(* malformed: parsing raises; blank: the markup is the empty string.       *)
(***************************************************************************)
EmptySections == [title |-> <<>>, headings |-> <<>>, paragraphs |-> <<>>, lists |-> <<>>]

\* line 76: cookie|privacy|terms|kvk|btw|(c)|\d{2}:\d{2}; "09:30" is a dd:dd run
BoilerplateWords == {"cookie", "privacy", "terms", "kvk", "btw", "(c)", "09:30"}

\* line 77
ContactPrefixes == {S(<<"tel:">>), S(<<"email:">>), S(<<"www.">>)}

\* the paragraph test with the lower limit included
AcceptsParagraphFrom50(text) ==
    /\ StrLen(text) >= 50
    /\ StrLen(text) < 1000
    /\ ~\E j \in DOMAIN text : LowerStr(text[j].w) \in BoilerplateWords
    /\ ~\E pre \in ContactPrefixes : StartsWith(Lower(text), pre)

\* lines 75-77, of the stripped text of a p element
AcceptsParagraph(text) ==
    /\ StrLen(text) > 50
    /\ StrLen(text) < 1000
    /\ ~\E j \in DOMAIN text : LowerStr(text[j].w) \in BoilerplateWords
    /\ ~\E pre \in ContactPrefixes : StartsWith(Lower(text), pre)

\* line 68
AcceptsHeading(text) == StrLen(text) > 3 /\ StrLen(text) < 200

StripAll(texts) == [j \in DOMAIN texts |-> Strip(texts[j])]

\* lines 82-84, of one ul / ol element
ListItems(ul) ==
    LET items == StripAll(ul)
    IN  IF items # <<>> /\ \A j \in 1..Min(3, Len(items)) : StrLen(items[j]) > 10
        THEN SubSeq(items, 1, Min(5, Len(items)))
        ELSE <<>>

extract_meaningful_content(html_content) ==
    IF html_content.malformed THEN EmptySections
    ELSE [title |-> html_content.title,
          headings |-> SelectSeq(StripAll(html_content.headings), AcceptsHeading),
          paragraphs |-> SelectSeq(StripAll(html_content.paragraphs), AcceptsParagraph),
          lists |-> Flatten([j \in DOMAIN html_content.lists |-> ListItems(html_content.lists[j])])]

(***************************************************************************)
(* analyze_business_model (app.py 174-222).  A pattern is the alternatives *)
(* of its leading words, each followed by \s+, and the bounds {lo,hi} of   *)
(* its capture group [^.]{lo,hi}.                                          *)
(***************************************************************************)
value_patterns ==
    << [heads |-> << {"we", "our", "company", "firm"},
                     {"provide", "offer", "deliver", "create", "enable", "help", "support"} >>,
        lo |-> 20, hi |-> 150],
       [heads |-> << {"expertise", "experience", "specializ", "focus"}, {"in", "on"} >>,
        lo |-> 15, hi |-> 100],
       [heads |-> << {"leading", "premier", "established", "recognized"} >>,
        lo |-> 15, hi |-> 100] >>

service_patterns ==
    << [heads |-> << {"services", "solutions", "offerings"}, {"include", "encompass", "cover"} >>,
        lo |-> 20, hi |-> 150],
       [heads |-> << {"specialize", "specialized", "specializing"}, {"in", "on"} >>,
        lo |-> 15, hi |-> 100] >>

expertise_keywords == {"expertise", "experience", "specialized", "focus", "solutions", "services"}

RECURSIVE SkipSpaces(_, _)
SkipSpaces(t, j) == IF j <= Len(t) /\ IsSpace(t[j]) THEN SkipSpaces(t, j + 1) ELSE j

\* where the capture starts when the leading words match at j; 0 when they do not
RECURSIVE HeadEnd(_, _, _)
HeadEnd(heads, t, j) ==
    IF heads = <<>> THEN j
    ELSE IF j + 1 <= Len(t) /\ LowerStr(t[j].w) \in heads[1] /\ IsSpace(t[j + 1])
         THEN HeadEnd(Tail(heads), t, SkipSpaces(t, j + 1))
         ELSE 0

\* the characters from c up to the next "."
CaptureRun(t, c) == SplitFirst(SubSeq(t, c, Len(t)), ".")

\* the first k characters of s; a token cut in two leaves a run of filler
RECURSIVE TakeChars(_, _)
TakeChars(s, k) ==
    IF s = <<>> \/ k = 0 THEN <<>>
    ELSE IF s[1].n <= k THEN <<s[1]>> \o TakeChars(Tail(s), k - s[1].n)
    ELSE <<X(k)>>

RECURSIVE DropChars(_, _)
DropChars(s, k) ==
    IF s = <<>> \/ k = 0 THEN s
    ELSE IF s[1].n <= k THEN DropChars(Tail(s), k - s[1].n)
    ELSE <<X(s[1].n - k)>> \o Tail(s)

MatchesAt(pattern, t, j) ==
    /\ HeadEnd(pattern.heads, t, j) # 0
    /\ StrLen(CaptureRun(t, HeadEnd(pattern.heads, t, j))) >= pattern.lo

\* re.findall(pattern, all_text, re.IGNORECASE): the captures, left to right
RECURSIVE findall(_, _)
findall(pattern, t) ==
    LET starts == {j \in DOMAIN t : MatchesAt(pattern, t, j)}
    IN  IF starts = {} THEN <<>>
        ELSE LET j == CHOOSE a \in starts : \A b \in starts : a <= b
                 c == HeadEnd(pattern.heads, t, j)
                 cap == TakeChars(CaptureRun(t, c), pattern.hi)
             IN  <<cap>> \o findall(pattern, DropChars(SubSeq(t, c, Len(t)), StrLen(cap)))

LongEnough(match) == StrLen(Strip(match)) > 15

\* lines 197-201 and 209-213, for one pattern
PatternEntries(pattern, all_text) ==
    LET matches == findall(pattern, all_text)
    IN  StripAll(SelectSeq(SubSeq(matches, 1, Min(3, Len(matches))), LongEnough))

IsExpertiseHeading(heading) ==
    /\ \E k \in expertise_keywords : Contains(Lower(heading), S(<<k>>))
    /\ StrLen(heading) > 10
    /\ StrLen(heading) < 100

analyze_business_model(content_sections) ==
    LET all_text == Join(content_sections.paragraphs \o content_sections.headings
                         \o content_sections.lists, S(<<" ">>))
    IN  [value_propositions |->
            Flatten([j \in DOMAIN value_patterns |-> PatternEntries(value_patterns[j], all_text)]),
         service_offerings |->
            Flatten([j \in DOMAIN service_patterns |-> PatternEntries(service_patterns[j], all_text)]),
         competitive_advantages |-> <<>>,
         client_focus |-> <<>>,
         expertise_areas |-> SelectSeq(content_sections.headings, IsExpertiseHeading)]

(***************************************************************************)
(* search_market_intelligence (148-172), research_financial_benchmarks     *)
(* (224-243) and the industry choice of lines 393-400.  The two static     *)
(* profiles are named, not copied.                                         *)
(***************************************************************************)
ContainsWord(s, word) == Contains(Lower(s), S(<<word>>))

\* an industry choice that looks for 'sustainable' alone
industry_terms_by_sustainable(content_sections) ==
    LET all_text == Join(content_sections.paragraphs \o content_sections.headings, S(<<" ">>))
    IN  IF ContainsWord(all_text, "sustainable")
        THEN S(<<"sustainable", " ", "office", " ", "design">>)
        ELSE S(<<"office", " ", "design">>)

\* lines 394-397
industry_terms_of(content_sections) ==
    LET all_text == Join(content_sections.paragraphs \o content_sections.headings, S(<<" ">>))
    IN  IF \E term \in {"sustainable", "green", "eco", "leed", "environmental"} :
              ContainsWord(all_text, term)
        THEN S(<<"sustainable", " ", "office", " ", "design">>)
        ELSE S(<<"office", " ", "design">>)

search_market_intelligence(industry_terms) ==
    IF ContainsWord(industry_terms, "sustainable") \/ ContainsWord(industry_terms, "green")
    THEN "sustainable_design"
    ELSE "office_design"

research_financial_benchmarks(industry) ==
    IF industry \in {"office_design", "sustainable_design"} THEN industry ELSE "office_design"

(***************************************************************************)
(* generate_professional_highlights (app.py 245-340).  A highlight is its  *)
(* title, category and strength, the text bound into its description and   *)
(* the static profile its figures are read from.                           *)
(***************************************************************************)
Highlight(title, category, strength, text, profile) ==
    [title |-> title, category |-> category, strength |-> strength,
     text |-> text, profile |-> profile]

\* line 293: 'sustainable' or 'green' in str(content_data).lower()
MentionsEsg(content_data) ==
    \E s \in Range(content_data.value_propositions) \cup Range(content_data.service_offerings)
             \cup Range(content_data.competitive_advantages) \cup Range(content_data.client_focus)
             \cup Range(content_data.expertise_areas) :
        ContainsWord(s, "sustainable") \/ ContainsWord(s, "green")

\* lines 253-261
ValueHighlights(content_data) ==
    [j \in 1..Min(2, Len(content_data.value_propositions)) |->
        Highlight("Differentiated Value Proposition", "Business Model & Strategy", "High",
                  Lower(content_data.value_propositions[j]), "")]

\* lines 250-338: the list before it is cut
AllHighlights(content_data, market, bench) ==
    ValueHighlights(content_data)
    \o << Highlight("Exposure to High-Growth Market Segment", "Market Dynamics", "High", <<>>, market) >>
    \o (IF content_data.expertise_areas # <<>>
        THEN << Highlight("Specialized Expertise", "Competitive Position", "Medium-High",
                          Lower(content_data.expertise_areas[1]), "") >>
        ELSE <<>>)
    \o << Highlight("Strong Financial Profile", "Financial Performance", "Medium", <<>>, bench) >>
    \o (IF MentionsEsg(content_data)
        THEN << Highlight("ESG Leadership", "ESG & Sustainability", "High", <<>>, market) >>
        ELSE <<>>)
    \o (IF content_data.service_offerings # <<>>
        THEN << Highlight("Diversified Service Portfolio", "Operational Excellence", "Medium",
                          Lower(content_data.service_offerings[1]), "") >>
        ELSE <<>>)
    \o << Highlight("Established Market Presence", "Client Relationships", "Medium", <<>>, ""),
          Highlight("Well-Positioned for Digital Transformation", "Innovation & Technology", "Medium", <<>>, ""),
          Highlight("Scalable Business Model", "Operational Excellence", "Medium", <<>>, bench) >>

\* a cut that keeps the last 9 records instead of the first 9
generate_last_nine_highlights(content_data, market, bench) ==
    LET all == AllHighlights(content_data, market, bench)
    IN  SubSeq(all, Len(all) - Min(9, Len(all)) + 1, Len(all))

\* line 340: highlights[:9]
generate_professional_highlights(content_data, market, bench) ==
    LET all == AllHighlights(content_data, market, bench)
    IN  SubSeq(all, 1, Min(9, Len(all)))

(***************************************************************************)
(* The web and the user: the inputs of the scripts.                        *)
(***************************************************************************)
Anchor(href, text) == [href |-> href, text |-> text]

Html(anchors, headings, paragraphs, lists) ==
    [malformed |-> FALSE, blank |-> FALSE, title |-> S(<<"Ex">>), anchors |-> anchors,
     headings |-> headings, paragraphs |-> paragraphs, lists |-> lists]

BlankHtml ==
    [malformed |-> FALSE, blank |-> TRUE, title |-> <<>>, anchors |-> <<>>,
     headings |-> <<>>, paragraphs |-> <<>>, lists |-> <<>>]

MalformedHtml == [BlankHtml EXCEPT !.malformed = TRUE, !.blank = FALSE]

\* get_page_content's results: None, or the response text
NoContent == [none |-> TRUE, html |-> BlankHtml]

Content(html) == [none |-> FALSE, html |-> html]

\* a truth test that takes None for content
AnyContent(content) == TRUE

\* `if content:` (lines 354, 373): neither None nor the empty string
IsTruthy(content) == ~content.none /\ ~content.html.blank

AnchorChoices ==
    {Anchor(S(<<"/", "about">>), S(<<"About">>)),
     Anchor(S(<<"/", "about", "#", "team">>), S(<<"Team">>)),
     Anchor(S(<<"/", "about", ".pdf">>), S(<<"About">>)),
     Anchor(S(<<"/", "Team", ".PDF">>), S(<<"Team">>)),
     Anchor(S(<<"https://", "www.", "ex", ".com", "/", "team">>), S(<<"Team">>)),
     Anchor(S(<<"/", "wp-json">>), S(<<"API">>)),
     Anchor(S(<<"/", "wp-json", "/">>), S(<<"API">>)),
     Anchor(S(<<"/", "contact">>), S(<<"Contact">>)),
     Anchor(S(<<"#", "top">>), S(<<"Top">>)),
     Anchor(S(<<"mailto:", "info@ex.com">>), S(<<"Mail">>)),
     Anchor(S(<<"/", "services", "?", "x">>), S(<<"Services">>)),
     Anchor(S(<<"/">>), S(<<"Home">>)),
     Anchor(S(<<"?", "lang=en">>), S(<<"English">>)),
     Anchor(S(<<"https://", "ex", ".com">>), S(<<"Home">>))}

BaseUrls ==
    {S(<<"https://", "ex", ".com">>), S(<<"https://", "ex", ".com", "/">>),
     S(<<"https://", "team", "-ex", ".com">>)}

\* p elements: filler of the lengths around the limits, bare or decorated
ParagraphChoices ==
    {pre \o <<X(k)>> \o post :
        pre \in {<<>>, S(<<" ">>), S(<<"Tel:", " ">>), S(<<"Cookie", " ">>)},
        k \in {49, 50, 51, 999, 1000},
        post \in {<<>>, S(<<" ">>)}}

Phrases == {<<X(30)>>, S(<<"Green", " ">>) \o <<X(30)>>}

\* p elements that the patterns of analyze_business_model match or pass over
SentenceChoices ==
    {S(<<"We", " ", "offer", " ">>) \o <<X(60)>> \o S(<<".">>),
     S(<<"our", " ", "services", " ", "include", " ">>) \o <<X(60)>> \o S(<<".">>),
     S(<<"leading", " ">>) \o <<X(14)>> \o S(<<" ", ".", " ">>) \o <<X(40)>>,
     <<X(80)>>}

\* an h2 element that names an expertise keyword
ExpertiseHeading == S(<<"Expertise", " ">>) \o <<X(12)>>

Profiles == {"office_design", "sustainable_design"}

HomeWithLinks ==
    Html(<<Anchor(S(<<"/", "about">>), S(<<"About">>)),
           Anchor(S(<<"/", "about", "#", "team">>), S(<<"Team">>)),
           Anchor(S(<<"/", "contact">>), S(<<"Contact">>)),
           Anchor(S(<<"/", "about", ".pdf">>), S(<<"About">>))>>,
         <<>>, <<<<X(80)>>>>, <<>>)

GreenPage ==
    Html(<<>>,
         <<S(<<"Expertise", " ">>) \o <<X(12)>>>>,
         <<S(<<"We", " ", "offer", " ", "Green", " ">>) \o <<X(200)>> \o S(<<".">>)>>,
         << <<<<X(12)>>, <<X(11)>>>> >>)

ThinPage == Html(<<>>, <<<<X(5)>>>>, <<<<X(50)>>>>, <<>>)

\* seven pages linked, of seven different scores: 9, 7, 6, 5, 3, 2, 0
BusyPage ==
    Html(<<Anchor(S(<<"/", "contact">>), S(<<"Contact">>)),
           Anchor(S(<<"/", "about">>), S(<<"About">>)),
           Anchor(S(<<"/", "news">>), S(<<"Team">>)),
           Anchor(S(<<"/", "team">>), S(<<"Staff">>)),
           Anchor(S(<<"/", "about", "/", "team">>), S(<<"Staff">>)),
           Anchor(S(<<"/", "services">>), S(<<"Team", " ", "Services">>)),
           Anchor(S(<<"/", "projects">>), S(<<"About", " ", "Team", " ", "Services">>))>>,
         <<>>, <<<<X(80)>>>>, <<>>)

WebPages == {BlankHtml, MalformedHtml, HomeWithLinks, GreenPage, ThinPage, BusyPage}

\* what requests.get does: it raises, or it returns a response
TransportErrors == {"ConnectionError", "Timeout", "SSLError"}

Raised(e) == [raised |-> e, status |-> 0, text |-> BlankHtml]

Response(status, text) == [raised |-> "", status |-> status, text |-> text]

\* the final responses of a server, redirects followed: any page with 200,
\* and the statuses that are not followed further or are errors
ServerResponses ==
    {Response(200, h) : h \in WebPages}
        \cup {Response(300, ThinPage), Response(304, BlankHtml),
              Response(404, ThinPage), Response(503, BlankHtml)}

\* the pages of the site that only answer with a thin page or time out
QuietPages == {"news", "team", "services", "projects"}

\* requests.get(url, ...): a URL without a scheme raises MissingSchema
requests_get(url) ==
    IF ~HasScheme(url) THEN {Raised("MissingSchema")}
    ELSE IF url[Len(url)].w \in QuietPages THEN {Raised("Timeout"), Response(200, ThinPage)}
    ELSE {Raised(e) : e \in TransportErrors} \cup ServerResponses

\* response.raise_for_status(): HTTPError for a status from 400 to 599
raise_for_status(r) ==
    IF r.raised = "" /\ 400 <= r.status /\ r.status < 600
    THEN [r EXCEPT !.raised = "HTTPError"] ELSE r

\* lines 20-35, given what requests.get did: response.text, or None when
\* the request or raise_for_status raised
get_page_content(r) ==
    IF raise_for_status(r).raised # "" THEN NoContent ELSE Content(r.text)

\* line 34: the warning of the except branch, if it is taken
Warned(log, url, r) ==
    IF raise_for_status(r).raised # ""
    THEN Append(log, [url |-> url, error |-> raise_for_status(r).raised])
    ELSE log

UserUrls ==
    {<<>>, S(<<"ex", ".com">>), S(<<"https://", "ex", ".com">>),
     S(<<"http://", "ex", ".com", "/">>)}

UserKeys == {<<>>, S(<<"sk-">>)}

\* str(e) of the failures of openai.ChatCompletion.create
ApiErrors ==
    {S(<<"Invalid API key">>), S(<<"Authentication", " ", "failed">>),
     S(<<"Rate limit", " ", "reached">>), S(<<"insufficient_", "quota">>),
     S(<<"You exceeded your current ", "quota">>), S(<<"Connection error">>)}

DefaultMaxPages == 6

NoAnalysis ==
    [value_propositions |-> <<>>, service_offerings |-> <<>>, competitive_advantages |-> <<>>,
     client_focus |-> <<>>, expertise_areas |-> <<>>]

NoStory == [kind |-> "none", error |-> <<>>]

(***************************************************************************)
(* app.py: main (495-546) and comprehensive_company_analysis (342-416).    *)
(***************************************************************************)
\* main, lines 527-537: the button was clicked
Main ==
    /\ entry = "app" /\ pc = "click"
    /\ IF company_url = <<>>
       THEN /\ screen' = "error: enter a URL"
            /\ pc' = "done"
            /\ UNCHANGED company_url
       ELSE /\ company_url' = IF company_url[1].w \in HttpSchemes THEN company_url
                              ELSE S(<<"https://">>) \o company_url
            /\ pc' = "fetch_homepage"
            /\ UNCHANGED screen
    /\ UNCHANGED <<entry, api_key, gets, outcomes, warnings, responses,
                   homepage_content, homepage_sections,
                   max_pages, key_pages, scored_links, page_i, all_content_sections, business_analysis,
                   market_data, benchmarks, highlights, analysis_results, story>>

\* lines 353-355
FetchHomepage ==
    /\ entry = "app" /\ pc = "fetch_homepage"
    /\ \E r \in requests_get(company_url) :
        LET content == get_page_content(r)
        IN  /\ gets' = Append(gets, company_url)
            /\ outcomes' = Append(outcomes, r)
            /\ warnings' = Warned(warnings, company_url, r)
            /\ responses' = Append(responses, content)
            /\ homepage_content' = content
            /\ IF ~IsTruthy(content)
               THEN analysis_results' = "None" /\ pc' = "display"
               ELSE analysis_results' = analysis_results /\ pc' = "extract_homepage"
    /\ UNCHANGED <<entry, company_url, api_key, homepage_sections, max_pages, key_pages, scored_links,
                   page_i, all_content_sections, business_analysis, market_data,
                   benchmarks, highlights, screen, story>>

\* line 357
ExtractHomepage ==
    /\ entry = "app" /\ pc = "extract_homepage"
    /\ homepage_sections' = extract_meaningful_content(homepage_content.html)
    /\ pc' = "find_key_pages"
    /\ UNCHANGED <<entry, company_url, api_key, gets, outcomes, warnings, responses,
                   homepage_content,
                   max_pages, key_pages, scored_links, page_i, all_content_sections, business_analysis,
                   market_data, benchmarks, highlights, analysis_results, screen, story>>

\* lines 360-368
FindKeyPages ==
    /\ entry = "app" /\ pc = "find_key_pages"
    /\ LET score == LinkScores(company_url, homepage_content.html.anchors)
       IN  \E pages \in find_key_pages(company_url, homepage_content.html, max_pages) :
             /\ key_pages' = pages
             /\ scored_links' = [j \in DOMAIN pages |-> [score |-> score[pages[j]], link |-> pages[j]]]
    /\ all_content_sections' = homepage_sections
    /\ page_i' = 0
    /\ pc' = "crawl"
    /\ UNCHANGED <<entry, company_url, api_key, gets, outcomes, warnings, responses,
                   homepage_content,
                   homepage_sections, max_pages, business_analysis, market_data,
                   benchmarks, highlights, analysis_results, screen, story>>

\* a merge that puts the page's sections in front of the aggregate
MergePagePrepending(acc, content) ==
    IF IsTruthy(content)
    THEN LET page_sections == extract_meaningful_content(content.html)
         IN  [acc EXCEPT !.headings = page_sections.headings \o @,
                         !.paragraphs = page_sections.paragraphs \o @,
                         !.lists = page_sections.lists \o @]
    ELSE acc

\* lines 373-378: a page's sections are appended to the aggregate
MergePage(acc, content) ==
    IF IsTruthy(content)
    THEN LET page_sections == extract_meaningful_content(content.html)
         IN  [acc EXCEPT !.headings = @ \o page_sections.headings,
                         !.paragraphs = @ \o page_sections.paragraphs,
                         !.lists = @ \o page_sections.lists]
    ELSE acc

\* what a failed secondary fetch would do if it were handled like the homepage's
FetchKeyPageAborting ==
    /\ entry = "app" /\ pc = "crawl" /\ page_i < Len(key_pages)
    /\ \E r \in requests_get(key_pages[page_i + 1]) :
        LET content == get_page_content(r)
        IN  /\ gets' = Append(gets, key_pages[page_i + 1])
            /\ outcomes' = Append(outcomes, r)
            /\ warnings' = Warned(warnings, key_pages[page_i + 1], r)
            /\ responses' = Append(responses, content)
            /\ all_content_sections' = MergePage(all_content_sections, content)
            /\ IF IsTruthy(content)
               THEN analysis_results' = analysis_results /\ pc' = pc
               ELSE analysis_results' = "None" /\ pc' = "display"
    /\ page_i' = page_i + 1
    /\ UNCHANGED <<entry, company_url, api_key, homepage_content, homepage_sections,
                   max_pages, key_pages, scored_links, business_analysis, market_data, benchmarks,
                   highlights, screen, story>>

\* a loop that stays on a page whose fetch failed and fetches it again
FetchKeyPageRetrying ==
    /\ entry = "app" /\ pc = "crawl" /\ page_i < Len(key_pages)
    /\ \E r \in requests_get(key_pages[page_i + 1]) :
        LET content == get_page_content(r)
        IN  /\ gets' = Append(gets, key_pages[page_i + 1])
            /\ outcomes' = Append(outcomes, r)
            /\ warnings' = Warned(warnings, key_pages[page_i + 1], r)
            /\ responses' = Append(responses, content)
            /\ all_content_sections' = MergePage(all_content_sections, content)
            /\ page_i' = IF content.none THEN page_i ELSE page_i + 1
    /\ UNCHANGED <<entry, pc, company_url, api_key, homepage_content, homepage_sections,
                   max_pages, key_pages, scored_links, business_analysis, market_data, benchmarks,
                   highlights, analysis_results, screen, story>>

\* lines 371-381: one iteration of the loop over key_pages
FetchKeyPage ==
    /\ entry = "app" /\ pc = "crawl" /\ page_i < Len(key_pages)
    /\ \E r \in requests_get(key_pages[page_i + 1]) :
        LET content == get_page_content(r)
        IN  /\ gets' = Append(gets, key_pages[page_i + 1])
            /\ outcomes' = Append(outcomes, r)
            /\ warnings' = Warned(warnings, key_pages[page_i + 1], r)
            /\ responses' = Append(responses, content)
            /\ all_content_sections' = MergePage(all_content_sections, content)
    /\ page_i' = page_i + 1
    /\ UNCHANGED <<entry, pc, company_url, api_key, homepage_content, homepage_sections,
                   max_pages, key_pages, scored_links, business_analysis, market_data, benchmarks,
                   highlights, analysis_results, screen, story>>

\* lines 383-400: phases 2 and 3, once the loop is over
AnalyzeContent ==
    /\ entry = "app" /\ pc = "crawl" /\ page_i = Len(key_pages)
    /\ business_analysis' = analyze_business_model(all_content_sections)
    /\ LET industry_terms == industry_terms_of(all_content_sections)
       IN  /\ market_data' = search_market_intelligence(industry_terms)
           /\ benchmarks' = research_financial_benchmarks(
                                IF Contains(industry_terms, S(<<"sustainable">>))
                                THEN "sustainable_design" ELSE "office_design")
    /\ pc' = "generate_highlights"
    /\ UNCHANGED <<entry, company_url, api_key, gets, outcomes, warnings, responses,
                   homepage_content,
                   homepage_sections, max_pages, key_pages, scored_links, page_i, all_content_sections,
                   highlights, analysis_results, screen, story>>

\* lines 402-416
GenerateHighlights ==
    /\ entry = "app" /\ pc = "generate_highlights"
    /\ highlights' = generate_professional_highlights(business_analysis, market_data, benchmarks)
    /\ analysis_results' = "results"
    /\ pc' = "display"
    /\ UNCHANGED <<entry, company_url, api_key, gets, outcomes, warnings, responses,
                   homepage_content,
                   homepage_sections, max_pages, key_pages, scored_links, page_i, all_content_sections,
                   business_analysis, market_data, benchmarks, screen, story>>

\* main, lines 539-542
Display ==
    /\ entry = "app" /\ pc = "display"
    /\ screen' = IF analysis_results = "results" THEN "results"
                 ELSE "error: could not complete analysis"
    /\ pc' = "done"
    /\ UNCHANGED <<entry, company_url, api_key, gets, outcomes, warnings, responses,
                   homepage_content,
                   homepage_sections, max_pages, key_pages, scored_links, page_i, all_content_sections,
                   business_analysis, market_data, benchmarks, highlights,
                   analysis_results, story>>

(***************************************************************************)
(* app_fixed.py: the button handler (243-270), simple_research_company     *)
(* (84-125) and generate_story_with_openai (128-196).                      *)
(***************************************************************************)
\* lines 243-246
FixedClick ==
    /\ entry = "app_fixed" /\ pc = "click"
    /\ IF company_url = <<>> \/ api_key = <<>>
       THEN screen' = "error: provide URL and key" /\ pc' = "done"
       ELSE screen' = screen /\ pc' = "research"
    /\ UNCHANGED <<entry, company_url, api_key, gets, outcomes, warnings, responses,
                   homepage_content,
                   homepage_sections, max_pages, key_pages, scored_links, page_i, all_content_sections,
                   business_analysis, market_data, benchmarks, highlights,
                   analysis_results, story>>

\* lines 249-253 with simple_research_company: success is False when the GET raises
SimpleResearch ==
    /\ entry = "app_fixed" /\ pc = "research"
    /\ \E r \in requests_get(company_url) :
        /\ gets' = Append(gets, company_url)
        /\ outcomes' = Append(outcomes, r)
        /\ responses' = Append(responses, IF raise_for_status(r).raised # "" THEN NoContent
                                          ELSE Content(r.text))
        /\ IF raise_for_status(r).raised # ""
           THEN screen' = "error: failed to research" /\ pc' = "done"
           ELSE screen' = screen /\ pc' = "generate_story"
    /\ UNCHANGED <<warnings, entry, company_url, api_key, homepage_content, homepage_sections,
                   max_pages, key_pages, scored_links, page_i, all_content_sections, business_analysis,
                   market_data, benchmarks, highlights, analysis_results, story>>

\* lines 185-196: the message returned for a failure whose str(e) is e
ErrorCategory(e) ==
    LET error_msg == Lower(e)
    IN  IF Contains(error_msg, S(<<"invalid api key">>)) \/ Contains(error_msg, S(<<"authentication">>))
        THEN "Authentication Error"
        ELSE IF Contains(error_msg, S(<<"rate limit">>)) \/ Contains(error_msg, S(<<"quota">>))
        THEN "Rate Limit Error"
        ELSE IF Contains(error_msg, S(<<"insufficient_", "quota">>))
        THEN "Quota Error"
        ELSE "Error"

\* lines 264-270 with generate_story_with_openai
GenerateStory ==
    /\ entry = "app_fixed" /\ pc = "generate_story"
    /\ \/ /\ story' = [kind |-> "story", error |-> <<>>]
          /\ screen' = "story"
       \/ \E e \in ApiErrors :
            /\ story' = [kind |-> ErrorCategory(e), error |-> e]
            /\ screen' = "error: story"
    /\ pc' = "done"
    /\ UNCHANGED <<entry, company_url, api_key, gets, outcomes, warnings, responses,
                   homepage_content,
                   homepage_sections, max_pages, key_pages, scored_links, page_i, all_content_sections,
                   business_analysis, market_data, benchmarks, highlights, analysis_results>>

(***************************************************************************)
(* Specifications.  Spec runs either script from the click of its button.  *)
(* SpecLinks, SpecExtract, SpecHighlights and SpecAnalyze run one function *)
(* from every argument within the bounds.                                  *)
(***************************************************************************)
NothingFetched == gets = <<>> /\ outcomes = <<>> /\ warnings = <<>> /\ responses = <<>>

NothingAnalyzed ==
    /\ business_analysis = NoAnalysis
    /\ market_data = "office_design"
    /\ benchmarks = "office_design"

NothingShown ==
    /\ highlights = <<>>
    /\ analysis_results = "unset"
    /\ screen = "form"
    /\ story = NoStory

Init ==
    /\ entry \in {"app", "app_fixed"}
    /\ pc = "click"
    /\ company_url \in UserUrls
    /\ api_key \in UserKeys
    /\ max_pages = DefaultMaxPages
    /\ homepage_content = NoContent
    /\ homepage_sections = EmptySections
    /\ key_pages = <<>> /\ scored_links = <<>>
    /\ page_i = 0
    /\ all_content_sections = EmptySections
    /\ NothingFetched /\ NothingAnalyzed /\ NothingShown

Next ==
    \/ Main
    \/ FetchHomepage
    \/ ExtractHomepage
    \/ FindKeyPages
    \/ FetchKeyPage
    \/ AnalyzeContent
    \/ GenerateHighlights
    \/ Display
    \/ FixedClick
    \/ SimpleResearch
    \/ GenerateStory

Spec == Init /\ [][Next]_vars

\* find_key_pages(base_url, html_content, max_pages) on every anchor list
InitLinks ==
    /\ entry = "app"
    /\ pc = "find_key_pages"
    /\ company_url \in BaseUrls
    /\ api_key = <<>>
    /\ max_pages \in 0..MaxPagesArg
    /\ homepage_content \in
         {Content(Html(anchors, <<>>, <<>>, <<>>)) : anchors \in SeqsUpTo(AnchorChoices, MaxAnchors)}
         \cup {Content(MalformedHtml)}
    /\ homepage_sections = EmptySections
    /\ key_pages = <<>> /\ scored_links = <<>>
    /\ page_i = 0
    /\ all_content_sections = EmptySections
    /\ gets = <<company_url>> /\ outcomes = <<Response(200, homepage_content.html)>>
    /\ warnings = <<>> /\ responses = <<homepage_content>>
    /\ NothingAnalyzed /\ NothingShown

NextLinks == FindKeyPages

SpecLinks == InitLinks /\ [][NextLinks]_vars

\* extract_meaningful_content(html_content, url) on every list of p elements
InitExtract ==
    /\ entry = "app"
    /\ pc = "extract_homepage"
    /\ company_url \in BaseUrls
    /\ api_key = <<>>
    /\ max_pages = DefaultMaxPages
    /\ homepage_content \in
         {Content(Html(<<>>, <<>>, paragraphs, <<>>)) :
            paragraphs \in SeqsUpTo(ParagraphChoices, MaxParagraphs)}
    /\ homepage_sections = EmptySections
    /\ key_pages = <<>> /\ scored_links = <<>>
    /\ page_i = 0
    /\ all_content_sections = EmptySections
    /\ gets = <<company_url>> /\ outcomes = <<Response(200, homepage_content.html)>>
    /\ warnings = <<>> /\ responses = <<homepage_content>>
    /\ NothingAnalyzed /\ NothingShown

NextExtract == ExtractHomepage

SpecExtract == InitExtract /\ [][NextExtract]_vars

\* generate_professional_highlights on every BusinessAnalysis
InitHighlights ==
    /\ entry = "app"
    /\ pc = "generate_highlights"
    /\ company_url \in BaseUrls
    /\ api_key = <<>>
    /\ max_pages = DefaultMaxPages
    /\ homepage_content = Content(Html(<<>>, <<>>, <<>>, <<>>))
    /\ homepage_sections = EmptySections
    /\ key_pages = <<>> /\ scored_links = <<>>
    /\ page_i = 0
    /\ all_content_sections = EmptySections
    /\ gets = <<company_url>> /\ outcomes = <<Response(200, homepage_content.html)>>
    /\ warnings = <<>> /\ responses = <<homepage_content>>
    /\ business_analysis \in
         {[NoAnalysis EXCEPT !.value_propositions = v, !.service_offerings = s,
                             !.expertise_areas = e] :
            v \in SeqsUpTo(Phrases, MaxValueProps),
            s \in SeqsUpTo(Phrases, MaxBucket),
            e \in SeqsUpTo(Phrases, MaxBucket)}
    /\ market_data \in Profiles
    /\ benchmarks \in Profiles
    /\ NothingShown

NextHighlights == GenerateHighlights

SpecHighlights == InitHighlights /\ [][NextHighlights]_vars

\* analyze_business_model on the aggregate of a homepage of up to
\* MaxSentences paragraphs and up to MaxHeadings headings, no page linked
InitAnalyze ==
    /\ entry = "app"
    /\ pc = "crawl"
    /\ company_url = S(<<"https://", "ex", ".com">>)
    /\ api_key = <<>>
    /\ max_pages = DefaultMaxPages
    /\ homepage_content \in
         {Content(Html(<<>>, [j \in 1..k |-> ExpertiseHeading], paragraphs, <<>>)) :
            k \in 0..MaxHeadings, paragraphs \in SeqsUpTo(SentenceChoices, MaxSentences)}
    /\ homepage_sections = extract_meaningful_content(homepage_content.html)
    /\ key_pages = <<>> /\ scored_links = <<>>
    /\ page_i = 0
    /\ all_content_sections = homepage_sections
    /\ gets = <<company_url>> /\ outcomes = <<Response(200, homepage_content.html)>>
    /\ warnings = <<>> /\ responses = <<homepage_content>>
    /\ NothingAnalyzed /\ NothingShown

NextAnalyze == AnalyzeContent

SpecAnalyze == InitAnalyze /\ [][NextAnalyze]_vars

(***************************************************************************)
(* Properties.                                                             *)
(***************************************************************************)
HomepageFetched == entry = "app" /\ responses # <<>>

\* C1: generate_professional_highlights returns exactly 9 highlight records
\* for every BusinessAnalysis, empty, partly or fully populated.
ExactlyNineHighlights ==
    analysis_results = "results" => Len(highlights) = 9

\* C2: find_key_pages returns at most max_pages URLs, pairwise distinct once
\* fragment and query are stripped.
KeyPagesBoundedAndDistinct ==
    pc = "crawl" =>
        /\ Len(key_pages) <= max_pages
        /\ \A a, b \in DOMAIN key_pages :
              a # b => CleanUrl(key_pages[a]) # CleanUrl(key_pages[b])

\* anchors to two pages and room for one URL: one is returned
KeyPagesCut ==
    /\ pc = "crawl"
    /\ max_pages = 1
    /\ Len(key_pages) = 1
    /\ Cardinality({CleanUrl(urljoin(company_url, homepage_content.html.anchors[j].href)) :
                       j \in DOMAIN homepage_content.html.anchors} \ {company_url}) = 2

\* C3: every URL find_key_pages returns has the host of the base URL; an
\* anchor to another host, a subdomain included, is never returned.
KeyPagesOnBaseHost ==
    pc = "crawl" =>
        \A j \in DOMAIN key_pages : Netloc(key_pages[j]) = Netloc(company_url)

\* an anchor to a subdomain next to an internal one that is returned
SubdomainAnchorDropped ==
    /\ pc = "crawl"
    /\ key_pages # <<>>
    /\ \E j \in DOMAIN homepage_content.html.anchors :
          Netloc(homepage_content.html.anchors[j].href) = S(<<"www.", "ex", ".com">>)

\* the stripped texts of the p elements, and whether one was kept
ParagraphCandidates == Range(StripAll(homepage_content.html.paragraphs))

ParagraphKept(text) == text \in Range(homepage_sections.paragraphs)

\* a text of filler and blanks: no boilerplate word, no contact prefix
PlainText(text) == \A j \in DOMAIN text : text[j].w \in {"x", " "}

\* C4 as stated: a paragraph is rejected below 50 and from 1000 characters,
\* and accepted from 50 to 999 when it passes the other filters.
ParagraphLimits50To999 ==
    pc = "find_key_pages" =>
        \A text \in ParagraphCandidates :
            /\ (StrLen(text) < 50 \/ StrLen(text) >= 1000) => ~ParagraphKept(text)
            /\ (PlainText(text) /\ StrLen(text) >= 50 /\ StrLen(text) <= 999) => ParagraphKept(text)

\* C4 amended: a paragraph is rejected up to 50 and from 1000 characters, and
\* accepted from 51 to 999 when it passes the other filters.
ParagraphLimits51To999 ==
    pc = "find_key_pages" =>
        \A text \in ParagraphCandidates :
            /\ (StrLen(text) <= 50 \/ StrLen(text) >= 1000) => ~ParagraphKept(text)
            /\ (PlainText(text) /\ StrLen(text) >= 51 /\ StrLen(text) <= 999) => ParagraphKept(text)

\* a paragraph of exactly 50 characters dropped beside one of 51 that is kept
FiftyDroppedFiftyOneKept ==
    /\ pc = "find_key_pages"
    /\ <<X(50)>> \in ParagraphCandidates /\ ~ParagraphKept(<<X(50)>>)
    /\ <<X(51)>> \in ParagraphCandidates /\ ParagraphKept(<<X(51)>>)

\* C5: when the homepage fetch fails the analysis returns its failure value:
\* nothing is extracted, no other page is fetched, no highlights are
\* generated or displayed.
HomepageFailureIsFatal ==
    (HomepageFetched /\ responses[1].none) =>
        /\ pc \in {"display", "done"}
        /\ analysis_results = "None"
        /\ Len(gets) = 1
        /\ homepage_sections = EmptySections
        /\ highlights = <<>>
        /\ screen # "results"

HomepageFailureShown ==
    /\ HomepageFetched /\ responses[1].none
    /\ pc = "done"
    /\ screen = "error: could not complete analysis"

\* the sections of the secondary pages that answered, in the order fetched
RECURSIVE AnsweredSections(_)
AnsweredSections(resps) ==
    IF resps = <<>> THEN <<>>
    ELSE (IF resps[1].none \/ resps[1].html.blank THEN <<>>
          ELSE <<extract_meaningful_content(resps[1].html)>>)
         \o AnsweredSections(Tail(resps))

\* C6: with the homepage fetched, a failed secondary page adds nothing to the
\* aggregate and stops nothing: every later page is fetched and the analysis
\* returns a result.
SecondaryFailureSkipped ==
    (HomepageFetched /\ pc \in {"crawl", "generate_highlights", "display", "done"}
        /\ ~responses[1].none /\ ~responses[1].html.blank) =>
        LET answered == AnsweredSections(Tail(responses))
        IN  /\ gets = <<company_url>> \o SubSeq(key_pages, 1, page_i)
            /\ all_content_sections.paragraphs = homepage_sections.paragraphs
                   \o Flatten([j \in DOMAIN answered |-> answered[j].paragraphs])
            /\ all_content_sections.headings = homepage_sections.headings
                   \o Flatten([j \in DOMAIN answered |-> answered[j].headings])
            /\ all_content_sections.lists = homepage_sections.lists
                   \o Flatten([j \in DOMAIN answered |-> answered[j].lists])
            /\ pc # "crawl" => page_i = Len(key_pages)
            /\ pc \in {"display", "done"} => analysis_results = "results"
            /\ pc = "done" => screen = "results"

\* the first secondary page failed, the second answered, the results are shown
LaterPageFetchedAfterFailure ==
    /\ HomepageFetched /\ pc = "done" /\ screen = "results"
    /\ Len(responses) = 3
    /\ responses[2].none
    /\ ~responses[3].none /\ responses[3].html.paragraphs # <<>>

\* C7: no GET is issued for a URL without 'http://' or 'https://', in either
\* script: the scheme is prepended first.
EveryGetHasScheme ==
    \A j \in DOMAIN gets : HasScheme(gets[j])

\* the text analyze_business_model joins from the aggregate (lines 186-188)
AggregateText ==
    Join(all_content_sections.paragraphs \o all_content_sections.headings
         \o all_content_sections.lists, S(<<" ">>))

\* C8: an aggregate text shorter than 100 characters ends the analysis with
\* an error of its own and generate_professional_highlights is not invoked.
ThinAggregateIsFatal ==
    (HomepageFetched /\ pc \in {"display", "done"} /\ ~responses[1].none
        /\ ~responses[1].html.blank /\ StrLen(AggregateText) < 100) =>
        /\ highlights = <<>>
        /\ analysis_results # "results"

\* C9 as stated: no URL find_key_pages returns contains '.pdf', '.jpg', '.png',
\* 'wp-admin', 'wp-content', 'wp-json', 'mailto:' or 'tel:', in any case.
NoKeyPageWithWpJson ==
    pc = "crawl" =>
        \A j \in DOMAIN key_pages :
            \A x \in {S(<<".pdf">>), S(<<".jpg">>), S(<<".png">>), S(<<"wp-admin">>),
                      S(<<"wp-content">>), S(<<"wp-json">>), S(<<"mailto:">>), S(<<"tel:">>)} :
                ~Contains(Lower(key_pages[j]), x)

\* C9 amended: no URL find_key_pages returns contains '.pdf', '.jpg', '.png',
\* 'wp-admin', 'wp-content', '/wp-json/', 'mailto:' or 'tel:', in any case.
NoKeyPageWithExcludedPart ==
    pc = "crawl" =>
        \A j \in DOMAIN key_pages :
            \A x \in {S(<<".pdf">>), S(<<".jpg">>), S(<<".png">>), S(<<"wp-admin">>),
                      S(<<"wp-content">>), S(<<"/", "wp-json", "/">>), S(<<"mailto:">>),
                      S(<<"tel:">>)} :
                ~Contains(Lower(key_pages[j]), x)

\* an anchor to /about.pdf on the base host, left out of a result that is not empty
PdfAnchorDropped ==
    /\ pc = "crawl"
    /\ key_pages # <<>>
    /\ \E j \in DOMAIN homepage_content.html.anchors :
          homepage_content.html.anchors[j].href = S(<<"/", "about", ".pdf">>)

\* C10: a failure of the text-generation call is reported in the category of
\* its kind: authentication, rate limit, quota ('insufficient_quota') or generic.
ErrorCategoryByKind ==
    story.error # <<>> =>
        LET msg == Lower(story.error)
            auth == Contains(msg, S(<<"invalid api key">>)) \/ Contains(msg, S(<<"authentication">>))
            rate == Contains(msg, S(<<"rate limit">>))
            quota == Contains(msg, S(<<"insufficient_", "quota">>))
        IN  /\ auth => story.kind = "Authentication Error"
            /\ rate => story.kind = "Rate Limit Error"
            /\ quota => story.kind = "Quota Error"
            /\ (~auth /\ ~rate /\ ~Contains(msg, S(<<"quota">>))) => story.kind = "Error"

\* the kept URLs of the anchors in document order, each at its first anchor
RECURSIVE DiscoveryOrder(_, _, _)
DiscoveryOrder(base_url, anchors, seen) ==
    IF anchors = <<>> THEN seen
    ELSE LET clean_url == CleanUrl(urljoin(base_url, anchors[1].href))
         IN  DiscoveryOrder(base_url, Tail(anchors),
                 IF KeepsLink(base_url, anchors[1].href) /\ clean_url \notin Range(seen)
                 THEN Append(seen, clean_url) ELSE seen)

\* C11: find_key_pages returns its URLs by score descending, and URLs of
\* equal score in the document order of their first anchors, so one markup
\* has one result.
KeyPagesInDiscoveryOrder ==
    (pc = "crawl" /\ ~homepage_content.html.malformed) =>
        key_pages = RankedPages(DiscoveryOrder(company_url, homepage_content.html.anchors, <<>>),
                                LinkScores(company_url, homepage_content.html.anchors), max_pages)

\* C12: get_page_content never raises: a transport error or a status outside
\* 200-299 gives None and a warning for the URL, and only a response with a
\* status from 200 to 299 gives the response body.
OnlyStatus2xxYieldsBody ==
    entry = "app" =>
        /\ Len(outcomes) = Len(gets) /\ Len(responses) = Len(gets)
        /\ \A j \in DOMAIN outcomes :
              IF outcomes[j].raised = "" /\ 200 <= outcomes[j].status /\ outcomes[j].status < 300
              THEN responses[j] = Content(outcomes[j].text)
              ELSE /\ responses[j] = NoContent
                   /\ \E k \in DOMAIN warnings : warnings[k].url = gets[j]

\* C13: in one run of comprehensive_company_analysis every GET is answered
\* before the next is issued, no URL is fetched twice, failed or not, and at
\* most 1 + max_pages GETs are issued.
EachUrlFetchedOnce ==
    entry = "app" =>
        /\ Len(outcomes) = Len(gets) /\ Len(responses) = Len(gets)
        /\ \A a, b \in DOMAIN gets : a # b => gets[a] # gets[b]
        /\ Len(gets) <= 1 + max_pages
        /\ gets # <<>> => gets = <<company_url>> \o SubSeq(key_pages, 1, Len(gets) - 1)

\* a homepage that links seven pages: six of them fetched, one of the
\* fetches failed, seven GETs in all
SevenGetsForSevenLinks ==
    /\ entry = "app" /\ pc = "done"
    /\ Cardinality(LinkSet(company_url, homepage_content.html.anchors)) = 7
    /\ Len(gets) = 1 + max_pages
    /\ \E j \in 2..Len(responses) : responses[j].none /\ j < Len(responses)

\* the URL names the root of the base URL's host, written with or without "/"
DenotesHomepage(url) ==
    /\ Netloc(url) = Netloc(company_url)
    /\ CleanUrl(url) \in {Origin(company_url), Origin(company_url) \o S(<<"/">>)}

\* C14: find_key_pages never returns the base URL itself: an anchor whose
\* href resolves, fragment and query stripped, to the homepage ('#top',
\* '?lang=en', '/', the base URL with or without its trailing slash) is
\* left out of the result.
HomepageNotAmongKeyPages ==
    pc = "crawl" => \A j \in DOMAIN key_pages : ~DenotesHomepage(key_pages[j])

\* C15: the analysis aborts only when the homepage fetch fails: a homepage
\* answered with a status from 200 to 299, whatever its body, is extracted
\* and the analysis returns a result.
AnsweredHomepageContinues ==
    (entry = "app" /\ outcomes # <<>> /\ outcomes[1].raised = ""
        /\ 200 <= outcomes[1].status /\ outcomes[1].status < 300) =>
        /\ pc \notin {"click", "fetch_homepage"} => analysis_results # "None"
        /\ pc = "done" => screen = "results"

\* what the fetch of the j-th key page gave the aggregate: the page's
\* sections when get_page_content returned markup, nothing otherwise
KeyPageSections(j) ==
    IF IsTruthy(responses[j + 1]) THEN extract_meaningful_content(responses[j + 1].html)
    ELSE EmptySections

\* C16: for headings, paragraphs and list items the aggregate is the
\* homepage's sequence followed by those of the key pages that were fetched
\* successfully, in the order find_key_pages returned them, each page's items
\* in their own order, none dropped, repeated or moved; its title is the
\* homepage's.
AggregateInKeyPagesOrder ==
    (HomepageFetched /\ pc \in {"crawl", "generate_highlights", "display", "done"}
        /\ IsTruthy(responses[1])) =>
        LET home == extract_meaningful_content(responses[1].html)
        IN  /\ \A j \in 1..page_i : gets[j + 1] = key_pages[j]
            /\ all_content_sections.title = home.title
            /\ all_content_sections.headings =
                   home.headings \o Flatten([j \in 1..page_i |-> KeyPageSections(j).headings])
            /\ all_content_sections.paragraphs =
                   home.paragraphs \o Flatten([j \in 1..page_i |-> KeyPageSections(j).paragraphs])
            /\ all_content_sections.lists =
                   home.lists \o Flatten([j \in 1..page_i |-> KeyPageSections(j).lists])

\* a homepage with a paragraph and two key pages with paragraphs of their
\* own, all three merged
TwoPagesMergedBehindHomepage ==
    /\ HomepageFetched /\ pc = "done" /\ Len(responses) = 3
    /\ homepage_sections.paragraphs # <<>>
    /\ IsTruthy(responses[2]) /\ IsTruthy(responses[3])
    /\ KeyPageSections(1).paragraphs # <<>>
    /\ KeyPageSections(2).paragraphs # <<>>
    /\ KeyPageSections(1).paragraphs # KeyPageSections(2).paragraphs
    /\ KeyPageSections(1).headings # <<>> /\ KeyPageSections(1).lists # <<>>

\* the path of a URL: what follows its authority, fragment and query cut
PathOf(url) == SubSeq(CleanUrl(url), Len(Origin(url)) + 1, Len(CleanUrl(url)))

\* 2 for each keyword in the text of the anchors that point to the link
RECURSIVE PointingTextScore(_, _, _)
PointingTextScore(link, base_url, anchors) ==
    IF anchors = <<>> THEN 0
    ELSE (IF anchors[1].href # <<>> /\ CleanUrl(urljoin(base_url, anchors[1].href)) = link
          THEN 2 * KeywordHits(anchors[1].text) ELSE 0)
         + PointingTextScore(link, base_url, Tail(anchors))

\* C17: the score of a URL find_key_pages returns is 3 for each priority
\* keyword in the URL's path plus 2 for each priority keyword in the text of
\* the anchors that point to that URL; the host name and the anchors that
\* point to another URL add nothing.
ScoreFromPathAndOwnAnchors ==
    pc = "crawl" =>
        \A j \in DOMAIN scored_links :
            scored_links[j].score =
                3 * KeywordHits(PathOf(scored_links[j].link))
                + PointingTextScore(scored_links[j].link, company_url,
                                    homepage_content.html.anchors)

\* two value propositions, an expertise area, a service offering and the
\* ESG trigger: the templates produce ten records
AllTemplatesApply ==
    /\ Len(business_analysis.value_propositions) >= 2
    /\ business_analysis.expertise_areas # <<>>
    /\ business_analysis.service_offerings # <<>>
    /\ MentionsEsg(business_analysis)

\* C18: when the templates produce more than 9 highlights, the first 9 in
\* generation order are returned: only the record generated last is
\* dropped and the records kept are in the order they were generated.
FirstNineInGenerationOrder ==
    (analysis_results = "results" /\ AllTemplatesApply) =>
        /\ [j \in DOMAIN highlights |-> highlights[j].title] =
              << "Differentiated Value Proposition", "Differentiated Value Proposition",
                 "Exposure to High-Growth Market Segment", "Specialized Expertise",
                 "Strong Financial Profile", "ESG Leadership",
                 "Diversified Service Portfolio", "Established Market Presence",
                 "Well-Positioned for Digital Transformation" >>
        /\ highlights[1].text = Lower(business_analysis.value_propositions[1])
        /\ highlights[2].text = Lower(business_analysis.value_propositions[2])
        /\ highlights[4].text = Lower(business_analysis.expertise_areas[1])
        /\ highlights[7].text = Lower(business_analysis.service_offerings[1])

\* ten records generated from two different value propositions, nine returned
TenGeneratedNineReturned ==
    /\ analysis_results = "results" /\ AllTemplatesApply
    /\ Len(highlights) = 9
    /\ business_analysis.value_propositions[1] # business_analysis.value_propositions[2]

\* C19: analyze_business_model leaves value_propositions, service_offerings
\* and expertise_areas each with at most a fixed number of entries, whatever
\* the number of paragraphs and headings (no bucket above the three captures
\* of each of three patterns); every captured entry is trimmed and longer
\* than 15 characters.
BucketsOfFixedSize ==
    pc = "generate_highlights" =>
        /\ Len(business_analysis.value_propositions) <= 3 * Len(value_patterns)
        /\ Len(business_analysis.service_offerings) <= 3 * Len(service_patterns)
        /\ Len(business_analysis.expertise_areas) <= 3 * Len(value_patterns)
        /\ \A e \in Range(business_analysis.value_propositions)
                      \cup Range(business_analysis.service_offerings) :
              e = Strip(e) /\ StrLen(e) > 15

\* a paragraph or heading of the aggregate contains one of the five terms
AggregateNamesSustainability ==
    \E text \in Range(all_content_sections.paragraphs) \cup Range(all_content_sections.headings) :
        \E term \in {"sustainable", "green", "eco", "leed", "environmental"} :
            Contains(Lower(text), S(<<term>>))

\* C20: in every result the market data and the financial benchmarks come
\* from the same static profile: sustainable_design for both exactly when the
\* aggregate paragraph and heading text contains 'sustainable', 'green',
\* 'eco', 'leed' or 'environmental', office_design for both otherwise.
OneProfileForMarketAndBenchmarks ==
    (entry = "app" /\ (pc = "generate_highlights" \/ analysis_results = "results")) =>
        /\ market_data = benchmarks
        /\ AggregateNamesSustainability => market_data = "sustainable_design"
        /\ ~AggregateNamesSustainability => market_data = "office_design"
        /\ \A j \in DOMAIN highlights :
              highlights[j].profile \in {"", market_data}

\* a result on the sustainable_design profile for an aggregate that says
\* 'green' and nowhere 'sustainable'
GreenAggregateOnSustainableProfile ==
    /\ entry = "app" /\ analysis_results = "results" /\ pc = "done"
    /\ market_data = "sustainable_design" /\ benchmarks = "sustainable_design"
    /\ ~ContainsWord(AggregateText, "sustainable")
    /\ ContainsWord(AggregateText, "green")

====
